---- MODULE Spec2Model ----
(***************************************************************************)
(* Model of src/neuralngen/training/loss.py: class ngenLoss.                *)
(*                                                                         *)
(* Tensors are sequences (batch, then time, then site) of scalars.  A       *)
(* scalar is NaN or an exact rational n/d; the result of a square root is   *)
(* kept symbolically (root = TRUE means sqrt(n/d)).  The arithmetic is      *)
(* exact: floating-point rounding is not modelled.  y_hat holds finite      *)
(* numbers, y holds finite numbers or NaN (missing observation).            *)
(*                                                                         *)
(* A behaviour constructs a criterion and makes one call on it; no call     *)
(* modifies the criterion, so successive calls are independent.  A call     *)
(* ends with a return value or with the exception that propagated.          *)
(***************************************************************************)
EXTENDS Integers, Sequences, FiniteSets, TLC

VARIABLES self, op, args, result

vars == <<self, op, args, result>>

(* ------------------------------ bounds ------------------------------- *)
\* largest number of entries B * T * D of an input tensor
MaxCells == 2
MaxVal == 2
MaxWeight == 1
QuantileGrid == 3

\* trailing (site) axis; variogram_loss documents "shape [B, T, D=1]"
D == 1

(* ------------------------------ scalars ------------------------------ *)
RECURSIVE GCD(_, _)
GCD(a, b) == IF b = 0 THEN a ELSE GCD(b, a % b)

AbsInt(k) == IF k < 0 THEN -k ELSE k

NaN == [nan |-> TRUE, n |-> 0, d |-> 1, root |-> FALSE]

\* the float n/d; a zero denominator is the 0/0 of an empty mean
Rat(n, d) ==
    IF d = 0 THEN NaN
    ELSE LET g == GCD(AbsInt(n), d)
         IN  [nan |-> FALSE, n |-> n \div g, d |-> d \div g, root |-> FALSE]

Num(k) == Rat(k, 1)

isnan(a) == a.nan

RAdd(a, b) == IF a.nan \/ b.nan THEN NaN ELSE Rat(a.n * b.d + b.n * a.d, a.d * b.d)
RSub(a, b) == IF a.nan \/ b.nan THEN NaN ELSE Rat(a.n * b.d - b.n * a.d, a.d * b.d)
RMul(a, b) == IF a.nan \/ b.nan THEN NaN ELSE Rat(a.n * b.n, a.d * b.d)
RAbs(a) == IF a.nan THEN NaN ELSE Rat(AbsInt(a.n), a.d)
RLess(a, b) == a.n * b.d < b.n * a.d

RECURSIVE RPow(_, _)
RPow(a, k) == IF k = 0 THEN Num(1) ELSE RMul(a, RPow(a, k - 1))

\* torch.sqrt, kept symbolic unless the radicand is 0
RSqrt(a) ==
    IF a.nan THEN NaN
    ELSE IF a.n = 0 THEN a
    ELSE [nan |-> FALSE, n |-> a.n, d |-> a.d, root |-> TRUE]

\* torch.clamp(x, min=0.0): NaN stays NaN
ClampMin0(a) == IF a.nan THEN NaN ELSE IF a.n < 0 THEN Num(0) ELSE a

(* --------------------------- vectors (1-D) ---------------------------- *)
RECURSIVE SumSeq(_)
SumSeq(s) == IF s = <<>> THEN Num(0) ELSE RAdd(Head(s), SumSeq(Tail(s)))

\* Tensor.mean() of a flat collection: sum / numel, NaN when empty
MeanSeq(s) ==
    LET t == SumSeq(s)
    IN  IF t.nan THEN NaN ELSE Rat(t.n, t.d * Len(s))

RECURSIVE Concat(_)
Concat(ss) == IF ss = <<>> THEN <<>> ELSE Head(ss) \o Concat(Tail(ss))

\* row-major flattening of a [B, T, D] tensor
Flatten(x) == Concat([b \in 1..Len(x) |-> Concat(x[b])])

RemoveAt(s, i) == [k \in 1..(Len(s) - 1) |-> IF k < i THEN s[k] ELSE s[k + 1]]

\* position of the first largest element
ArgMax(s) ==
    CHOOSE i \in 1..Len(s) :
        /\ \A k \in 1..Len(s) : ~RLess(s[i], s[k])
        /\ \A k \in 1..(i - 1) : RLess(s[k], s[i])

\* torch.sort(v, descending=True) values
RECURSIVE SortDesc(_)
SortDesc(s) ==
    IF s = <<>> THEN <<>>
    ELSE LET i == ArgMax(s) IN <<s[i]>> \o SortDesc(RemoveAt(s, i))

\* mean over all pairs (i, j) of |a[i] - b[j]|
PairAbsMean(a, b) ==
    MeanSeq(Concat([i \in 1..Len(a) |-> [j \in 1..Len(b) |-> RAbs(RSub(a[i], b[j]))]]))

(* --------------------------- tensors (3-D) ---------------------------- *)
ShapeB(x) == Len(x)
ShapeT(x) == Len(x[1])

\* ~torch.isnan(y)
NotNanMask(y) ==
    [b \in 1..Len(y) |-> [t \in 1..Len(y[b]) |-> [s \in 1..Len(y[b][t]) |-> ~isnan(y[b][t][s])]]]

\* torch.where(mask, x, torch.zeros_like(x))
WhereZero(mask, x) ==
    [b \in 1..Len(x) |-> [t \in 1..Len(x[b]) |->
        [s \in 1..Len(x[b][t]) |-> IF mask[b][t][s] THEN x[b][t][s] ELSE Num(0)]]]

RECURSIVE SelectFlat(_, _)
SelectFlat(v, m) ==
    IF v = <<>> THEN <<>>
    ELSE (IF Head(m) THEN <<Head(v)>> ELSE <<>>) \o SelectFlat(Tail(v), Tail(m))

\* boolean indexing x[mask]: the selected entries in row-major order
MaskedSelect(x, mask) == SelectFlat(Flatten(x), Flatten(mask))

\* F.mse_loss(a, b) with the default mean reduction
mse_loss_fn(a, b) == MeanSeq([i \in 1..Len(a) |-> RPow(RSub(a[i], b[i]), 2)])

(* ----------------------------- call results --------------------------- *)
NoLosses == [k \in {} |-> NaN]

\* a normal return: a scalar, a [B, D] tensor, or forward's loss bundle
Return(value, out, losses, qs) ==
    [status |-> "ok", value |-> value, out |-> out, losses |-> losses, qs |-> qs]

\* an exception propagating out of the call: nothing is returned
Raise(exc) ==
    [status |-> exc, value |-> NaN, out |-> <<>>, losses |-> NoLosses, qs |-> <<>>]

(* ------------------------ Python call semantics ----------------------- *)
\* names defined in the body of class ngenLoss
ClassAttrs == {"__init__", "forward", "variogram_loss", "fdc_loss", "var_hyd_char"}

\* names __init__ sets on the instance
InstanceAttrs == {"distance_matrix", "variogram_weight", "fdc_weight", "v_order"}

\* self.<name>: nn.Module.__getattr__ raises AttributeError for any other name
HasAttr(name) == name \in ClassAttrs \cup InstanceAttrs

\* signature of var_hyd_char as written: its first parameter is ts, not self
var_hyd_char_params == <<"ts", "method", "quantile", "random_quantile", "quantile_bounds">>

var_hyd_char_defaults ==
    [method |-> "mean", quantile |-> Rat(1, 4), random_quantile |-> FALSE,
     quantile_bounds |-> <<Rat(5, 100), Rat(95, 100)>>]

\* Binding of a call's arguments to the parameters: positional arguments
\* fill the leading parameters, and a keyword naming a parameter that is
\* already filled is a TypeError ("got multiple values for argument").
BindError(params, positional, kw) ==
    \/ Len(positional) > Len(params)
    \/ \E i \in 1..Len(positional) : params[i] \in DOMAIN kw
    \/ \E k \in DOMAIN kw : \A i \in 1..Len(params) : params[i] # k

BindArg(params, positional, kw, defaults, name) ==
    LET i == CHOOSE k \in 1..Len(params) : params[k] = name
    IN  IF i <= Len(positional) THEN positional[i]
        ELSE IF name \in DOMAIN kw THEN kw[name]
        ELSE defaults[name]

(* ------------------- hydrograph characteristic reducer ---------------- *)
\* levels k / QuantileGrid of [0, 1]
Levels == {Rat(k, QuantileGrid) : k \in 0..QuantileGrid}

\* possible outcomes of random.uniform(lo, hi)
UniformOutcomes(bounds) ==
    {q \in Levels : ~RLess(q, bounds[1]) /\ ~RLess(bounds[2], q)}

\* int(x): truncation toward zero
IntTrunc(x) == IF x.n >= 0 THEN x.n \div x.d ELSE -((-x.n) \div x.d)

Min2(a, b) == IF a < b THEN a ELSE b
Max2(a, b) == IF a > b THEN a ELSE b

\* the time series of example b at site s
Column(ts, b, s) == [t \in 1..Len(ts[b]) |-> ts[b][t][s]]


\* Tensor.median(dim): the lower of the two middle values
MedianSeq(c) == SortDesc(c)[Len(c) - ((Len(c) - 1) \div 2)]

\* Tensor.std(dim): sample standard deviation (divisor T - 1)
StdSeq(c) ==
    LET m == MeanSeq(c)
        ss == SumSeq([t \in 1..Len(c) |-> RPow(RSub(c[t], m), 2)])
    IN  IF ss.nan THEN NaN ELSE RSqrt(Rat(ss.n, ss.d * (Len(c) - 1)))

\* round(x), ties to the even neighbour
Round(x) ==
    LET f == x.n \div x.d
        twice == 2 * (x.n - f * x.d)
    IN  IF twice < x.d THEN f
        ELSE IF twice > x.d THEN f + 1
        ELSE IF f % 2 = 0 THEN f ELSE f + 1

\* the index rounded to the nearest rank instead of truncated
QuantileIndex_rounded(quantile, T) ==
    LET index == Round(RMul(quantile, Num(T)))
    IN  Max2(0, Min2(index, T - 1))

\* ts.mean(dim=1)
MeanTime(ts) ==
    [b \in 1..Len(ts) |-> [s \in 1..Len(ts[b][1]) |-> MeanSeq(Column(ts, b, s))]]

\* ts.median(dim=1).values
MedianTime(ts) ==
    [b \in 1..Len(ts) |-> [s \in 1..Len(ts[b][1]) |-> MedianSeq(Column(ts, b, s))]]

\* ts.std(dim=1)
StdTime(ts) ==
    [b \in 1..Len(ts) |-> [s \in 1..Len(ts[b][1]) |-> StdSeq(Column(ts, b, s))]]

\* ts.sort(dim=1, descending=True) followed by sorted_ts[:, index, :]
SortedAt(ts, index) ==
    [b \in 1..Len(ts) |->
        [s \in 1..Len(ts[b][1]) |-> SortDesc(Column(ts, b, s))[index + 1]]]

\* index into the descending sort (0-based), lines 190-191
QuantileIndex(quantile, T) ==
    LET index == IntTrunc(RMul(quantile, Num(T)))
    IN  Max2(0, Min2(index, T - 1))

\* an unknown tag silently reduced with the default method
unknown_method_fallback(ts, method) ==
    Return(NaN, MeanTime(ts), NoLosses, <<>>)

\* the final else branch: raise ValueError(...)
unknown_method(ts, method) == Raise("ValueError")

\* body of var_hyd_char with its parameters bound; draw is the outcome of
\* random.uniform(*quantile_bounds), used only when random_quantile is set
var_hyd_char_body(ts, method, quantile, random_quantile, quantile_bounds, draw) ==
    IF method = "mean" THEN
        Return(NaN, MeanTime(ts), NoLosses, <<>>)
    ELSE IF method = "median" THEN
        Return(NaN, MedianTime(ts), NoLosses, <<>>)
    ELSE IF method = "std" THEN
        Return(NaN, StdTime(ts), NoLosses, <<>>)
    ELSE IF method = "quantile" THEN
        LET q == IF random_quantile THEN draw ELSE quantile
            index == QuantileIndex(q, ShapeT(ts))
        IN  Return(NaN, SortedAt(ts, index), NoLosses, <<q>>)
    ELSE
        unknown_method(ts, method)

\* a call of var_hyd_char with the given positional and keyword arguments
var_hyd_char(positional, kw, draw) ==
    IF BindError(var_hyd_char_params, positional, kw) THEN Raise("TypeError")
    ELSE LET arg(name) ==
                 BindArg(var_hyd_char_params, positional, kw, var_hyd_char_defaults, name)
         IN  var_hyd_char_body(arg("ts"), arg("method"), arg("quantile"),
                               arg("random_quantile"), arg("quantile_bounds"), draw)

(* ------------------------------ fdc_loss ------------------------------ *)
Prefix(s, k) == [i \in 1..k |-> s[i]]

\* the empty case left to the reductions: the mean of no entries
fdc_empty_unguarded(y_flat) == Return(MeanSeq(y_flat), <<>>, NoLosses, <<>>)

\* lines 121-122: return torch.tensor(0.0)
fdc_empty(y_flat) == Return(Num(0), <<>>, NoLosses, <<>>)

\* the within-variability of the predictions left out
fdc_divergence_no_within_hat(cross_var, within_y, within_hat) ==
    RSub(cross_var, RMul(Rat(1, 2), within_y))

\* line 139
fdc_divergence_fn(cross_var, within_y, within_hat) ==
    RSub(cross_var, RMul(Rat(1, 2), RAdd(within_y, within_hat)))

\* lines 131-142, on the two truncated sorted vectors
fdc_sorted(y_sorted, y_hat_sorted) ==
    LET cross_var == PairAbsMean(y_sorted, y_hat_sorted)
        within_y == PairAbsMean(y_sorted, y_sorted)
        within_hat == PairAbsMean(y_hat_sorted, y_hat_sorted)
        fdc_divergence == fdc_divergence_fn(cross_var, within_y, within_hat)
    IN  Return(ClampMin0(fdc_divergence), <<>>, NoLosses, <<>>)

\* lines 121-129, on the two flat vectors
fdc_flat(y_hat_flat, y_flat) ==
    IF Len(y_flat) = 0 THEN fdc_empty(y_flat)
    ELSE fdc_sorted(Prefix(SortDesc(y_flat), Min2(Len(y_flat), Len(y_hat_flat))),
                    Prefix(SortDesc(y_hat_flat), Min2(Len(y_flat), Len(y_hat_flat))))

fdc_loss(slf, y_hat, y, mask) ==
    fdc_flat(MaskedSelect(y_hat, mask), MaskedSelect(y, mask))

(* --------------------------- variogram_loss --------------------------- *)
None == <<>>

\* .squeeze(-1): drops the trailing axis when it has size 1
Squeeze(out) ==
    IF Len(out[1]) = 1 THEN [b \in 1..Len(out) |-> out[b][1]] ELSE out

\* |v[:, None] - v[None, :]| ** v_order
PairPow(v, v_order) ==
    [i \in 1..Len(v) |-> [j \in 1..Len(v) |-> RPow(RAbs(RSub(v[i], v[j])), v_order)]]

\* lines 104-108: the squared differences, weighted when a distance matrix
\* is configured
loss_matrix(slf, diff_obs, diff_pred) ==
    [i \in 1..Len(diff_obs) |-> [j \in 1..Len(diff_obs) |->
        IF slf.distance_matrix # None
        THEN RMul(RPow(RSub(diff_obs[i][j], diff_pred[i][j]), 2),
                  slf.distance_matrix[i][j])
        ELSE RPow(RSub(diff_obs[i][j], diff_pred[i][j]), 2)]]

\* lines 100-110, on the two reduced vectors
variogram_flat(slf, y_hat_flat, y_flat, qs) ==
    IF slf.distance_matrix # None /\ Len(slf.distance_matrix) # Len(y_flat)
    THEN Raise("RuntimeError")
    ELSE Return(MeanSeq(Concat(loss_matrix(slf, PairPow(y_flat, slf.v_order),
                                           PairPow(y_hat_flat, slf.v_order)))),
                <<>>, NoLosses, qs)

\* an exception of either reduction propagates
variogram_reduced(slf, r_hat, r_obs) ==
    IF r_hat.status # "ok" THEN Raise(r_hat.status)
    ELSE IF r_obs.status # "ok" THEN Raise(r_obs.status)
    ELSE variogram_flat(slf, Squeeze(r_hat.out), Squeeze(r_obs.out), r_hat.qs \o r_obs.qs)

\* keyword arguments of both reductions, lines 94-98
variogram_kw == [method |-> "quantile", random_quantile |-> TRUE]

\* draw_hat and draw_obs are the outcomes of the random.uniform calls made
\* by the first and by the second call of var_hyd_char.  self.var_hyd_char(x,
\* ...) passes the instance as the first positional argument.
variogram_loss(slf, y_hat, y, mask, draw_hat, draw_obs) ==
    variogram_reduced(slf,
                      var_hyd_char(<<slf, y_hat>>, variogram_kw, draw_hat),
                      var_hyd_char(<<slf, y>>, variogram_kw, draw_obs))

(* ------------------------------- forward ------------------------------ *)
\* Tensors are objects: `loss = mse_loss` gives the tensor held by mse_loss
\* a second name, and `loss += x` updates that tensor in place.  In the
\* state of a running call, heap maps a tensor object to its value, losses
\* maps a key to a tensor object, and loss is the object "t_mse".

\* lines 71-72
forward_start(mse_loss) ==
    [status |-> "ok", heap |-> ("t_mse" :> mse_loss), losses |-> ("mse_loss" :> "t_mse")]

\* loss += weight * term; losses[key] = term
add_term(s, key, obj, weight, term) ==
    IF term.status # "ok" THEN [s EXCEPT !.status = term.status]
    ELSE [status |-> "ok",
          heap |-> (obj :> term.value) @@
                   ("t_mse" :> RAdd(s.heap["t_mse"], RMul(Num(weight), term.value))) @@
                   s.heap,
          losses |-> (key :> obj) @@ s.losses]

\* lines 74-77
forward_variogram(slf, s, y_hat, y, mask, draw_hat, draw_obs) ==
    IF slf.variogram_weight > 0 THEN
        IF ~HasAttr("_variogram_loss") THEN [s EXCEPT !.status = "AttributeError"]
        ELSE add_term(s, "variogram_loss", "t_vario", slf.variogram_weight,
                      variogram_loss(slf, y_hat, y, mask, draw_hat, draw_obs))
    ELSE s

\* lines 79-82
forward_fdc(slf, s, y_hat, y, mask) ==
    IF s.status = "ok" /\ slf.fdc_weight > 0 THEN
        IF ~HasAttr("_fdc_loss") THEN [s EXCEPT !.status = "AttributeError"]
        ELSE add_term(s, "fdc_loss", "t_fdc", slf.fdc_weight, fdc_loss(slf, y_hat, y, mask))
    ELSE s

\* lines 84-86
forward_return(s) ==
    IF s.status # "ok" THEN Raise(s.status)
    ELSE Return(s.heap["t_mse"], <<>>,
                [k \in DOMAIN s.losses \cup {"total_loss"} |->
                    IF k = "total_loss" THEN s.heap["t_mse"] ELSE s.heap[s.losses[k]]],
                <<>>)

\* lines 71-86
forward_terms(slf, mse_loss, y_hat, y, mask, draw_hat, draw_obs) ==
    forward_return(
        forward_fdc(slf,
                    forward_variogram(slf, forward_start(mse_loss),
                                      y_hat, y, mask, draw_hat, draw_obs),
                    y_hat, y, mask))

\* lines 68-86, on the masked arrays
forward_masked(slf, y_hat, y, mask, draw_hat, draw_obs) ==
    forward_terms(slf, mse_loss_fn(MaskedSelect(y_hat, mask), MaskedSelect(y, mask)),
                  y_hat, y, mask, draw_hat, draw_obs)

\* the base term taken over every position of the prediction as given
forward_unmasked(slf, y_hat0, y0, draw_hat, draw_obs) ==
    forward_terms(slf,
                  mse_loss_fn(Flatten(y_hat0), Flatten(WhereZero(NotNanMask(y0), y0))),
                  WhereZero(NotNanMask(y0), y_hat0), WhereZero(NotNanMask(y0), y0),
                  NotNanMask(y0), draw_hat, draw_obs)

forward(slf, y_hat0, y0, draw_hat, draw_obs) ==
    forward_masked(slf, WhereZero(NotNanMask(y0), y_hat0), WhereZero(NotNanMask(y0), y0),
                   NotNanMask(y0), draw_hat, draw_obs)

(* ----------------------------- construction --------------------------- *)
v_order_default == 2
distance_matrix_default == None

\* ngenLoss.__init__
ngenLoss(distance_matrix, variogram_weight, fdc_weight, v_order) ==
    [distance_matrix |-> distance_matrix,
     variogram_weight |-> variogram_weight,
     fdc_weight |-> fdc_weight,
     v_order |-> v_order]

(* ------------------------------- inputs ------------------------------- *)
FiniteVals == {Num(v) : v \in 0..MaxVal}
ObsVals == FiniteVals \cup {NaN}

Tensors(B, T, S) == [1..B -> [1..T -> [1..D -> S]]]

\* the shapes <<B, T>> of the input tensors
Shapes == {sh \in (1..MaxCells) \X (1..MaxCells) : sh[1] * sh[2] * D <= MaxCells}

Methods == {"mean", "median", "std", "quantile", "max"}

NoArgs ==
    [y_hat |-> <<>>, y |-> <<>>, mask |-> <<>>, ts |-> <<>>, method |-> "",
     quantile |-> Num(0), random_quantile |-> FALSE]

(* ------------------------------- actions ------------------------------ *)
Init ==
    /\ \E vw \in 0..MaxWeight, fw \in 0..MaxWeight :
           self = ngenLoss(distance_matrix_default, vw, fw, v_order_default)
    /\ op = "none"
    /\ args = NoArgs
    /\ result = Return(NaN, <<>>, NoLosses, <<>>)

\* outcomes of the two random.uniform calls of one variogram_loss call
DrawPairs ==
    UniformOutcomes(var_hyd_char_defaults.quantile_bounds) \X
    UniformOutcomes(var_hyd_char_defaults.quantile_bounds)

\* the random source is consulted only on the variogram branch of forward
ForwardDraws ==
    IF self.variogram_weight > 0 THEN DrawPairs
    ELSE {<<var_hyd_char_defaults.quantile, var_hyd_char_defaults.quantile>>}

\* criterion(prediction, data), on a freshly constructed criterion
Forward ==
    /\ op = "none"
    /\ \E shape \in Shapes :
       \E y_hat \in Tensors(shape[1], shape[2], FiniteVals), y \in Tensors(shape[1], shape[2], ObsVals) :
       \E draws \in ForwardDraws :
           /\ op' = "forward"
           /\ args' = [NoArgs EXCEPT !.y_hat = y_hat, !.y = y]
           /\ result' = forward(self, y_hat, y, draws[1], draws[2])
           /\ UNCHANGED self

\* criterion.variogram_loss(y_hat, y, mask) on arrays without missing values
VariogramLoss ==
    /\ op = "none"
    /\ \E shape \in Shapes :
       \E y_hat \in Tensors(shape[1], shape[2], FiniteVals), y \in Tensors(shape[1], shape[2], FiniteVals) :
       \E draws \in DrawPairs :
           LET mask == NotNanMask(y)
           IN  /\ op' = "variogram_loss"
               /\ args' = [NoArgs EXCEPT !.y_hat = y_hat, !.y = y, !.mask = mask]
               /\ result' = variogram_loss(self, y_hat, y, mask, draws[1], draws[2])
               /\ UNCHANGED self

\* criterion.fdc_loss(y_hat, y, mask) on arrays masked as in forward
FdcLoss ==
    /\ op = "none"
    /\ \E shape \in Shapes :
       \E y_hat0 \in Tensors(shape[1], shape[2], FiniteVals), y0 \in Tensors(shape[1], shape[2], ObsVals) :
           LET mask == NotNanMask(y0)
               y_hat == WhereZero(mask, y_hat0)
               y == WhereZero(mask, y0)
           IN  /\ op' = "fdc_loss"
               /\ args' = [NoArgs EXCEPT !.y_hat = y_hat, !.y = y, !.mask = mask]
               /\ result' = fdc_loss(self, y_hat, y, mask)
               /\ UNCHANGED self

\* ngenLoss.var_hyd_char(ts, method=..., quantile=..., random_quantile=...)
VarHydChar ==
    /\ op = "none"
    /\ \E shape \in Shapes :
       \E ts \in Tensors(shape[1], shape[2], FiniteVals), method \in Methods,
          quantile \in Levels, random_quantile \in BOOLEAN :
       \E draw \in UniformOutcomes(var_hyd_char_defaults.quantile_bounds) :
           /\ op' = "var_hyd_char"
           /\ args' = [NoArgs EXCEPT !.ts = ts, !.method = method,
                                     !.quantile = quantile,
                                     !.random_quantile = random_quantile]
           /\ result' = var_hyd_char(<<ts>>,
                                     [method |-> method, quantile |-> quantile,
                                      random_quantile |-> random_quantile],
                                     draw)
           /\ UNCHANGED self

Next == Forward \/ VariogramLoss \/ FdcLoss \/ VarHydChar

Spec == Init /\ [][Next]_vars

(* ------------------------------ properties ---------------------------- *)
Positions(x) == (1..Len(x)) \X (1..Len(x[1])) \X (1..D)

At(x, p) == x[p[1]][p[2]][p[3]]

HasValid(y) == \E p \in Positions(y) : ~isnan(At(y, p))
AllMissing(y) == \A p \in Positions(y) : isnan(At(y, p))

Keys == DOMAIN result.losses

\* the weighted contribution of an auxiliary term that is enabled
WeightedTerm(weight, key) ==
    IF weight > 0 THEN RMul(Num(weight), result.losses[key]) ELSE Num(0)

\* C1: after forward on inputs with at least one valid observation, the
\* bundle's total_loss equals its mse_loss plus variogram_weight times its
\* variogram_loss (when that weight is positive) plus fdc_weight times its
\* fdc_loss (when that weight is positive).
C1_TotalIsWeightedSum ==
    (op = "forward" /\ HasValid(args.y)) =>
        /\ {"mse_loss", "total_loss"} \subseteq Keys
        /\ self.variogram_weight > 0 => "variogram_loss" \in Keys
        /\ self.fdc_weight > 0 => "fdc_loss" \in Keys
        /\ result.losses["total_loss"] =
               RAdd(RAdd(result.losses["mse_loss"],
                         WeightedTerm(self.variogram_weight, "variogram_loss")),
                    WeightedTerm(self.fdc_weight, "fdc_loss"))

\* C2: after forward on inputs with at least one valid observation, a bundle
\* is returned whose keys are mse_loss and total_loss, plus variogram_loss
\* exactly when variogram_weight > 0 and fdc_loss exactly when fdc_weight > 0.
C2_BundleKeys ==
    (op = "forward" /\ HasValid(args.y)) =>
        /\ result.status = "ok"
        /\ Keys = {"mse_loss", "total_loss"}
                  \cup (IF self.variogram_weight > 0 THEN {"variogram_loss"} ELSE {})
                  \cup (IF self.fdc_weight > 0 THEN {"fdc_loss"} ELSE {})

\* C3: when every entry of y is NaN, forward fails; it does not return a
\* bundle (whose mse_loss would be NaN).
C3_NoValidTargetsFails ==
    (op = "forward" /\ AllMissing(args.y)) => result.status # "ok"

\* predictions of the same shape that differ from x only where y is NaN
AgreeOnObserved(x, y) ==
    {x2 \in Tensors(ShapeB(x), ShapeT(x), FiniteVals) :
        \A p \in Positions(y) : ~isnan(At(y, p)) => At(x2, p) = At(x, p)}

\* C4: a second forward call with the same y and with a y_hat that differs
\* only at positions where y is NaN returns the same mse_loss.
C4_MseIgnoresMissingPositions ==
    (op = "forward" /\ result.status = "ok") =>
        \A x2 \in AgreeOnObserved(args.y_hat, args.y), draws \in ForwardDraws :
            LET r2 == forward(self, x2, args.y, draws[1], draws[2])
            IN  /\ r2.status = "ok"
                /\ r2.losses["mse_loss"] = result.losses["mse_loss"]

\* forward returned a positive mse_loss for a y with a missing and an
\* observed position
C4_Witness ==
    /\ op = "forward"
    /\ result.status = "ok"
    /\ HasValid(args.y)
    /\ ~AllMissing(args.y) /\ \E p \in Positions(args.y) : isnan(At(args.y, p))
    /\ Cardinality(AgreeOnObserved(args.y_hat, args.y)) > 1
    /\ result.losses["mse_loss"].n > 0

KnownMethods == {"mean", "median", "std", "quantile"}

\* C5: var_hyd_char called with a method tag other than mean, median, std
\* or quantile raises ValueError and returns nothing.
C5_UnknownMethodRaises ==
    (op = "var_hyd_char" /\ args.method \notin KnownMethods) =>
        /\ result.status = "ValueError"
        /\ result.out = <<>>

C5_Witness ==
    /\ op = "var_hyd_char"
    /\ args.method \notin KnownMethods
    /\ result.status = "ValueError"

\* C6: fdc_loss returns a number >= 0 for every input, and 0 when the mask
\* selects no entry.
C6_FdcNonNegative ==
    op = "fdc_loss" =>
        /\ result.status = "ok"
        /\ ~isnan(result.value)
        /\ result.value.n >= 0
        /\ MaskedSelect(args.y, args.mask) = <<>> => result.value = Num(0)

\* fdc_loss returned a positive divergence under a mask that hides an entry
C6_Witness ==
    /\ op = "fdc_loss"
    /\ result.status = "ok"
    /\ result.value.n > 0
    /\ \E p \in Positions(args.mask) : ~At(args.mask, p)

\* the number of entries of v equal to a
Count(v, a) == Cardinality({i \in 1..Len(v) : v[i] = a})

\* the entries of v are those of w, in some order
Rearrangement(v, w) ==
    /\ Len(v) = Len(w)
    /\ \A i \in 1..Len(v) : Count(v, v[i]) = Count(w, v[i])

\* C7: when the valid entries of y_hat are a rearrangement of the valid
\* entries of y, fdc_loss returns exactly 0.
C7_FdcZeroOnRearrangement ==
    (op = "fdc_loss" /\ Rearrangement(MaskedSelect(args.y_hat, args.mask),
                                     MaskedSelect(args.y, args.mask))) =>
        /\ result.status = "ok"
        /\ result.value = Num(0)

\* fdc_loss returned 0 for a prediction that holds the observed values in a
\* different order
C7_Witness ==
    /\ op = "fdc_loss"
    /\ Rearrangement(MaskedSelect(args.y_hat, args.mask), MaskedSelect(args.y, args.mask))
    /\ MaskedSelect(args.y_hat, args.mask) # MaskedSelect(args.y, args.mask)
    /\ result.status = "ok"
    /\ result.value = Num(0)

\* C8: variogram_loss on y_hat equal to y at every position (no missing
\* value) returns 0, whatever the random draws.
C8_VariogramZeroOnEqual ==
    (op = "variogram_loss" /\ args.y_hat = args.y) =>
        /\ result.status = "ok"
        /\ result.value = Num(0)

\* the number of entries of c greater than a, and not less than a
Greater(c, a) == Cardinality({i \in 1..Len(c) : RLess(a, c[i])})
NotLess(c, a) == Cardinality({i \in 1..Len(c) : ~RLess(c[i], a)})

\* a is the entry at 0-based position k of c sorted in descending order
IsDescendingRank(c, k, a) ==
    /\ \E i \in 1..Len(c) : c[i] = a
    /\ Greater(c, a) <= k
    /\ k < NotLess(c, a)

\* the reducer returned, for every example and site, the entry of rank
\* index of the series
ReturnsRank(index) ==
    /\ result.status = "ok"
    /\ \A b \in 1..ShapeB(args.ts), s \in 1..D :
           IsDescendingRank(Column(args.ts, b, s),
                            index,
                            result.out[b][s])

QuantileCall ==
    op = "var_hyd_char" /\ args.method = "quantile" /\ ~args.random_quantile

\* clamp(k, 0, T - 1)
Clamp(k, T) == IF k < 0 THEN 0 ELSE IF k > T - 1 THEN T - 1 ELSE k

RoundedRank(q, T) == Clamp(Round(RMul(q, Num(T))), T)

\* the largest integer k with k <= q * T, clamped
TruncatedRank(q, T) ==
    Clamp(CHOOSE k \in 0..T : k * q.d <= q.n * T /\ q.n * T < (k + 1) * q.d, T)

\* C9 as stated: for method quantile the reducer returns the entry at index
\* clamp(round(q * T), 0, T - 1) of the series sorted in descending order.
C9_RoundedRank ==
    QuantileCall => ReturnsRank(RoundedRank(args.quantile, ShapeT(args.ts)))

\* C9 as amended: the index is clamp(int(q * T), 0, T - 1), the product
\* truncated, not rounded; q = 0 gives the maximum.
C9_TruncatedRank ==
    QuantileCall =>
        /\ ReturnsRank(TruncatedRank(args.quantile, ShapeT(args.ts)))
        /\ args.quantile = Num(0) =>
               \A b \in 1..ShapeB(args.ts), s \in 1..D :
                   Greater(Column(args.ts, b, s), result.out[b][s]) = 0

\* a quantile call on a series with distinct values where truncating and
\* rounding give different ranks
C9_Witness ==
    /\ QuantileCall
    /\ result.status = "ok"
    /\ RoundedRank(args.quantile, ShapeT(args.ts))
           # TruncatedRank(args.quantile, ShapeT(args.ts))
    /\ \E b \in 1..ShapeB(args.ts) :
           \E t1, t2 \in 1..ShapeT(args.ts) : args.ts[b][t1][1] # args.ts[b][t2][1]

\* C10: one variogram_loss call reduces y_hat and y at the same randomly
\* drawn quantile level.
C10_SharedQuantileDraw ==
    op = "variogram_loss" =>
        /\ result.status = "ok"
        /\ Len(result.qs) = 2
        /\ result.qs[1] = result.qs[2]

====
